---- MODULE Spec2Model ----
(***************************************************************************)
(* Model of the Procedural-Terrain-Heightmap-Generator:                    *)
(*   src/world_gen.py                   class Terrain                      *)
(*   src/functions/cellular_automata.py cellular_automata and its rules    *)
(*                                                                         *)
(* A heightmap (numpy 2-d array) is a sequence of rows, each a sequence of *)
(* cells; numpy's 0-based heightmap[x, y] is row x+1, column y+1.          *)
(***************************************************************************)
EXTENDS Integers, Sequences, FiniteSets

VARIABLES
    terrains,   \* the Terrain objects of the pipeline: id -> attributes
    stream,     \* the draws each numpy bit stream has produced so far
    printed,    \* what each Terrain's generate calls have printed
    rng,        \* the random generator object handed to a library call
    fn,         \* the function of the pending / last library call
    args,       \* its arguments
    ret         \* its result (return value or raised exception)

vars == <<terrains, stream, printed, rng, fn, args, ret>>

----------------------------------------------------------------------------
(* Bounds of the model *)

\* largest number of cells (rows * columns) of an input heightmap
MaxCells == 9

\* largest zoom factor passed to zoom
MaxFactor == 3

\* largest number of cells of a heightmap given to a whole automaton pass
MaxPassCells == 6

\* number of generate calls on one Terrain
MaxRuns == 2

\* largest number of rows / columns of a Terrain's start size
MaxStart == 2

\* number of draws taken from the bit stream of one seed
MaxDraws == 4

\* a draw of rng.random() is the Python float d / Resolution for an integer
\* d in 0..Resolution-1
Resolution == 24

----------------------------------------------------------------------------
(* Python values and the outcome of a call *)

PyInt(n) == [type |-> "int", val |-> n]
PyFloat(n) == [type |-> "float", val |-> n]
PyNone == [type |-> "NoneType", val |-> 0]
PyTuple(items) == [type |-> "tuple", val |-> items]
PyList(items) == [type |-> "list", val |-> items]
NdArray(a) == [type |-> "ndarray", val |-> a]

isinstance(v, t) == v.type = t

Pending == [kind |-> "pending", value |-> PyNone]
Returned(v) == [kind |-> "return", value |-> v]
Raised(exc) == [kind |-> "raise", value |-> exc]

NoTerrains == <<>>
NoStream == <<>>
NoOutput == <<>>

\* the sequence f[1], ..., f[n]
RECURSIVE SeqOf(_, _)
SeqOf(f, n) == IF n = 0 THEN <<>> ELSE Append(SeqOf(f, n - 1), f[n])

----------------------------------------------------------------------------
(* numpy random generator: its state is the sequence of draws it is still  *)
(* going to produce; rng.random() hands out the first and keeps the rest.  *)

Draws == 0..(Resolution - 1)

Generator(draws) == [type |-> "Generator", val |-> draws]

\* rng.random(): the next draw and the generator once it is taken
random(generator) ==
    [value |-> Head(generator.val), rng |-> Generator(Tail(generator.val))]

\* a generator created by np.random.default_rng: the bit stream of its seed
\* and the number of draws already taken from it
StreamGenerator(seed, position) ==
    [type |-> "Generator", val |-> [seed |-> seed, position |-> position]]

----------------------------------------------------------------------------
(* Python floats: IEEE 754 doubles between 0 and 1.  A double is kept as   *)
(* its integer part and the bits after the binary point, its value being   *)
(* int + frac[1]/2 + frac[2]/4 + ...; every operation rounds its exact     *)
(* result to 53 significant bits, ties to the even neighbour.              *)

\* the bits of r / b after the binary point, up to the 53rd significant one,
\* and the remainder left over
RECURSIVE LongDiv(_, _, _, _)
LongDiv(r, b, bits, significant) ==
    IF significant = 53 \/ r = 0
    THEN [bits |-> bits, rem |-> r]
    ELSE LET bit == IF 2 * r >= b THEN 1 ELSE 0
         IN  LongDiv(2 * r - bit * b, b, Append(bits, bit),
                     IF significant > 0 \/ bit = 1 THEN significant + 1 ELSE 0)

\* bits plus one unit in the last place
RECURSIVE Increment(_)
Increment(bits) ==
    IF bits = <<>>
    THEN [carry |-> 1, bits |-> <<>>]
    ELSE LET front == SubSeq(bits, 1, Len(bits) - 1)
         IN  IF bits[Len(bits)] = 0
             THEN [carry |-> 0, bits |-> Append(front, 1)]
             ELSE LET up == Increment(front)
                  IN  [carry |-> up.carry, bits |-> Append(up.bits, 0)]

\* the quotient num / den rounded to a double: -1 if the double is below the
\* quotient, 1 if it is above, 0 if the quotient is a double
DivRounding(num, den) ==
    LET q == LongDiv(num, den, <<>>, 0)
    IN  IF q.rem = 0 THEN 0
        ELSE IF 2 * q.rem > den THEN 1
        ELSE IF 2 * q.rem = den /\ q.bits[Len(q.bits)] = 1 THEN 1
        ELSE -1

\* the Python float num / den, for ints 0 <= num <= den
Frac(num, den) ==
    IF num = den
    THEN [int |-> 1, frac |-> <<>>]
    ELSE LET q == LongDiv(num, den, <<>>, 0)
         IN  IF DivRounding(num, den) = 1
             THEN LET up == Increment(q.bits)
                  IN  [int |-> up.carry, frac |-> up.bits]
             ELSE [int |-> 0, frac |-> q.bits]

\* bits, an exact value below 1, rounded to 53 significant bits
RoundBits(bits) ==
    LET first == CHOOSE i \in 1..Len(bits) :
                     bits[i] = 1 /\ \A j \in 1..(i - 1) : bits[j] = 0
        keep == first + 52
    IN  IF Len(bits) <= keep
        THEN [int |-> 0, frac |-> bits]
        ELSE LET head == SubSeq(bits, 1, keep)
                 sticky == \E i \in (keep + 2)..Len(bits) : bits[i] = 1
             IN  IF bits[keep + 1] = 1 /\ (sticky \/ head[keep] = 1)
                 THEN LET up == Increment(head)
                      IN  [int |-> up.carry, frac |-> up.bits]
                 ELSE [int |-> 0, frac |-> head]

\* the Python float 1 - f, for a double 0 <= f <= 1
OneMinus(f) ==
    IF f.int = 1
    THEN [int |-> 0, frac |-> <<>>]
    ELSE IF \A i \in 1..Len(f.frac) : f.frac[i] = 0
    THEN [int |-> 1, frac |-> <<>>]
    ELSE LET inverted == SeqOf([i \in 1..Len(f.frac) |-> 1 - f.frac[i]], Len(f.frac))
         IN  RoundBits(Increment(inverted).bits)

\* f < g on doubles
FloatLess(f, g) ==
    LET bit(h, i) == IF i <= Len(h.frac) THEN h.frac[i] ELSE 0
        longest == IF Len(f.frac) >= Len(g.frac) THEN Len(f.frac) ELSE Len(g.frac)
    IN  \/ f.int < g.int
        \/ /\ f.int = g.int
           /\ \E i \in 1..longest :
                 /\ bit(f, i) < bit(g, i)
                 /\ \A j \in 1..(i - 1) : bit(f, j) = bit(g, j)

\* the draws as Python floats: DrawFloats[d + 1] is d / Resolution
DrawFloats == SeqOf([i \in 1..Resolution |-> Frac(i - 1, Resolution)], Resolution)

\* draw < f, the draw being the Python float d / Resolution
DrawBelow(d, f) == FloatLess(DrawFloats[d + 1], f)

----------------------------------------------------------------------------
(* numpy arrays *)

Shape0(heightmap) == Len(heightmap)

Shape1(heightmap) == IF Len(heightmap) = 0 THEN 0 ELSE Len(heightmap[1])

\* heightmap[a, b] as numpy evaluates it: a negative index counts from the end
NpItem(heightmap, a, b) ==
    LET r == IF a < 0 THEN a + Shape0(heightmap) ELSE a
        c == IF b < 0 THEN b + Shape1(heightmap) ELSE b
    IN  heightmap[r + 1][c + 1]

\* the array with the given cells, as a sequence of rows
Array(cells, rows, cols) == SeqOf([x \in 1..rows |-> SeqOf(cells[x], cols)], rows)

\* all rows x cols arrays over the cell states {0, 1}
Heightmaps(rows, cols) == [1..rows -> [1..cols -> {0, 1}]]

BoundedShapes == {s \in (1..MaxCells) \X (1..MaxCells) : s[1] * s[2] <= MaxCells}

BoundedHeightmaps == UNION {Heightmaps(s[1], s[2]) : s \in BoundedShapes}

----------------------------------------------------------------------------
(* functions/cellular_automata.py: get_neighbours *)

\* the guard "the neighbour is outside the heightmap" with the lower checks lost
OutsideHeightmapUpperOnly(heightmap, x, y, i, j) ==
    \/ x + i >= Shape0(heightmap)
    \/ y + j >= Shape1(heightmap)

\* line 76 (and world_gen.py line 219): the neighbour is outside the heightmap
OutsideHeightmap(heightmap, x, y, i, j) ==
    \/ x + i < 0
    \/ x + i >= Shape0(heightmap)
    \/ y + j < 0
    \/ y + j >= Shape1(heightmap)

\* the two nested loops "for i in range(-1, 2): for j in range(-1, 2)", the
\* k-th iteration having i = k div 3 - 1, j = k mod 3 - 1
RECURSIVE NeighbourLoop(_, _, _, _, _)
NeighbourLoop(heightmap, x, y, k, neighbours) ==
    IF k > 8 THEN neighbours
    ELSE LET i == (k \div 3) - 1
             j == (k % 3) - 1
         IN  IF i = 0 /\ j = 0
             THEN NeighbourLoop(heightmap, x, y, k + 1, neighbours)
             ELSE IF OutsideHeightmap(heightmap, x, y, i, j)
             THEN NeighbourLoop(heightmap, x, y, k + 1, neighbours)
             ELSE IF NpItem(heightmap, x + i, y + j) = 1
             THEN NeighbourLoop(heightmap, x, y, k + 1, neighbours + 1)
             ELSE NeighbourLoop(heightmap, x, y, k + 1, neighbours)

get_neighbours(heightmap, x, y) == NeighbourLoop(heightmap, x, y, 0, 0)

\* world_gen.py: Terrain.__get_neighbours, the same loops as a method
RECURSIVE TerrainNeighbourLoop(_, _, _, _, _)
TerrainNeighbourLoop(heightmap, x, y, k, neighbours) ==
    IF k > 8 THEN neighbours
    ELSE LET i == (k \div 3) - 1
             j == (k % 3) - 1
         IN  IF i = 0 /\ j = 0
             THEN TerrainNeighbourLoop(heightmap, x, y, k + 1, neighbours)
             ELSE IF OutsideHeightmap(heightmap, x, y, i, j)
             THEN TerrainNeighbourLoop(heightmap, x, y, k + 1, neighbours)
             ELSE IF NpItem(heightmap, x + i, y + j) = 1
             THEN TerrainNeighbourLoop(heightmap, x, y, k + 1, neighbours + 1)
             ELSE TerrainNeighbourLoop(heightmap, x, y, k + 1, neighbours)

Terrain_get_neighbours(heightmap, x, y) ==
    TerrainNeighbourLoop(heightmap, x, y, 0, 0)

----------------------------------------------------------------------------
(* functions/cellular_automata.py: the cellular automata algorithms        *)

\* game_of_life with the overpopulation threshold off by one
game_of_life_Threshold4(cell, neighbours, generator) ==
    IF cell = 1
    THEN IF neighbours < 2 THEN 0
         ELSE IF neighbours > 4 THEN 0
         ELSE 1
    ELSE IF neighbours = 3 THEN 1 ELSE cell

game_of_life(cell, neighbours, generator) ==
    IF cell = 1
    THEN IF neighbours < 2 THEN 0
         ELSE IF neighbours > 3 THEN 0
         ELSE 1
    ELSE IF neighbours = 3 THEN 1 ELSE cell

brians_brain(cell, neighbours, generator) ==
    IF cell = 1
    THEN 0
    ELSE IF neighbours >= 6 THEN 1 ELSE cell

\* the outcome of a rule that may draw: the new cell and the generator after
\* the call, or the exception raised
RuleReturn(cell, generator) == [kind |-> "return", value |-> cell, rng |-> generator]
RuleRaise(exc, generator) == [kind |-> "raise", value |-> exc, rng |-> generator]

\* lines 197 and 189 for the neighbour counts 0..8: ChancesToLive[n + 1] is
\* (n + 8) / 24 and ChancesToDie[n + 1] is 1 - ((n + 8) / 24)
ChancesToLive == SeqOf([i \in 1..9 |-> Frac(i + 7, 24)], 9)
ChancesToDie == SeqOf([i \in 1..9 |-> OneMinus(Frac(i + 7, 24))], 9)

\* add_island with the "1 -" of chance_to_die forgotten
add_island_NoComplement(cell, neighbours, generator) ==
    IF generator.type = "NoneType"
    THEN RuleRaise("ValueError", generator)
    ELSE LET draw == random(generator)
         IN  IF cell = 1
             THEN LET chance_to_die == ChancesToLive[neighbours + 1]
                  IN  RuleReturn(IF DrawBelow(draw.value, chance_to_die) THEN 0 ELSE cell,
                                 draw.rng)
             ELSE LET chance_to_live == ChancesToLive[neighbours + 1]
                  IN  RuleReturn(IF DrawBelow(draw.value, chance_to_live) THEN 1 ELSE cell,
                                 draw.rng)

add_island(cell, neighbours, generator) ==
    IF generator.type = "NoneType"
    THEN RuleRaise("ValueError", generator)
    ELSE LET draw == random(generator)
         IN  IF cell = 1
             THEN LET chance_to_die == ChancesToDie[neighbours + 1]
                  IN  RuleReturn(IF DrawBelow(draw.value, chance_to_die) THEN 0 ELSE cell,
                                 draw.rng)
             ELSE LET chance_to_live == ChancesToLive[neighbours + 1]
                  IN  RuleReturn(IF DrawBelow(draw.value, chance_to_live) THEN 1 ELSE cell,
                                 draw.rng)

\* world_gen.py: Terrain.__live_or_die
Terrain_live_or_die(cell, neighbours) ==
    IF cell = 1
    THEN IF neighbours < 2 THEN 0
         ELSE IF neighbours > 3 THEN 0
         ELSE 1
    ELSE IF neighbours = 3 THEN 1 ELSE cell

----------------------------------------------------------------------------
(* functions/cellular_automata.py: cellular_automata *)

Algorithms == {"game_of_life", "brians_brain", "add_island"}

\* the call algorithm(heightmap[x, y], neighbours, rng) of line 42
Apply(algorithm, cell, neighbours, generator) ==
    CASE algorithm = "game_of_life" ->
            RuleReturn(game_of_life(cell, neighbours, generator), generator)
      [] algorithm = "brians_brain" ->
            RuleReturn(brians_brain(cell, neighbours, generator), generator)
      [] algorithm = "add_island" ->
            add_island(cell, neighbours, generator)

\* heightmap_copy[x, y] = cell
SetItem(heightmap, x, y, cell) ==
    [heightmap EXCEPT ![x + 1] = [@ EXCEPT ![y + 1] = cell]]

\* the loop body reading the array that is being written
AutomataCellInPlace(heightmap, heightmap_copy, x, y, algorithm, generator) ==
    Apply(algorithm, NpItem(heightmap_copy, x, y),
          get_neighbours(heightmap_copy, x, y), generator)

\* the loop body, lines 38-42: the new state of cell (x, y)
AutomataCell(heightmap, heightmap_copy, x, y, algorithm, generator) ==
    Apply(algorithm, NpItem(heightmap, x, y),
          get_neighbours(heightmap, x, y), generator)

\* the loops over x and y, the k-th iteration having x = k div shape[1],
\* y = k mod shape[1]; an exception of the rule ends the call
RECURSIVE AutomataLoop(_, _, _, _, _)
AutomataLoop(heightmap, heightmap_copy, algorithm, generator, k) ==
    IF k >= Shape0(heightmap) * Shape1(heightmap)
    THEN [kind |-> "return", value |-> NdArray(heightmap_copy), rng |-> generator,
          heightmap |-> heightmap]
    ELSE LET x == k \div Shape1(heightmap)
             y == k % Shape1(heightmap)
             r == AutomataCell(heightmap, heightmap_copy, x, y, algorithm, generator)
         IN  IF r.kind = "raise"
             THEN [kind |-> "raise", value |-> r.value, rng |-> r.rng,
                   heightmap |-> heightmap]
             ELSE AutomataLoop(heightmap, SetItem(heightmap_copy, x, y, r.value),
                               algorithm, r.rng, k + 1)

\* heightmap.copy(), then the loops; the result carries the returned array,
\* the generator and the argument array as they are after the call
cellular_automata(heightmap, algorithm, generator) ==
    AutomataLoop(heightmap, heightmap, algorithm, generator, 0)

\* world_gen.py: Terrain.__cellular_automata
RECURSIVE TerrainAutomataLoop(_, _, _)
TerrainAutomataLoop(heightmap, heightmap_copy, k) ==
    IF k >= Shape0(heightmap) * Shape1(heightmap)
    THEN [kind |-> "return", value |-> NdArray(heightmap_copy), heightmap |-> heightmap]
    ELSE LET x == k \div Shape1(heightmap)
             y == k % Shape1(heightmap)
             neighbours == Terrain_get_neighbours(heightmap, x, y)
         IN  TerrainAutomataLoop(
                 heightmap,
                 SetItem(heightmap_copy, x, y,
                         Terrain_live_or_die(NpItem(heightmap, x, y), neighbours)),
                 k + 1)

Terrain_cellular_automata(heightmap) == TerrainAutomataLoop(heightmap, heightmap, 0)

----------------------------------------------------------------------------
(* world_gen.py: Terrain.__zoom *)

\* np.ones((rows, cols))
Ones(rows, cols) == Array([x \in 1..rows |-> [y \in 1..cols |-> 1]], rows, cols)

\* np.tile(a, b.shape) in the place of np.kron(a, b)
Tile(a, b) ==
    Array([x \in 1..(Shape0(a) * Shape0(b)) |->
              [y \in 1..(Shape1(a) * Shape1(b)) |->
                  a[((x - 1) % Shape0(a)) + 1][((y - 1) % Shape1(a)) + 1]]],
          Shape0(a) * Shape0(b), Shape1(a) * Shape1(b))

\* np.kron(a, b): the block (i, j) of the result is a[i, j] * b
Kron(a, b) ==
    Array([x \in 1..(Shape0(a) * Shape0(b)) |->
              [y \in 1..(Shape1(a) * Shape1(b)) |->
                  a[((x - 1) \div Shape0(b)) + 1][((y - 1) \div Shape1(b)) + 1]
                    * b[((x - 1) % Shape0(b)) + 1][((y - 1) % Shape1(b)) + 1]]],
          Shape0(a) * Shape0(b), Shape1(a) * Shape1(b))

Terrain_zoom(heightmap, zoom_factor) ==
    IF ~isinstance(zoom_factor, "int")
    THEN Raised("TypeError")
    ELSE IF zoom_factor.val < 1
    THEN Raised("ValueError")
    ELSE Returned(NdArray(Kron(heightmap, Ones(zoom_factor.val, zoom_factor.val))))

----------------------------------------------------------------------------
(* Specification of the neighbour counters: a heightmap and an in-range    *)
(* cell are chosen, then one of the two counters is called on them.        *)

InitNeighbours ==
    /\ terrains = NoTerrains
    /\ stream = NoStream
    /\ printed = NoOutput
    /\ rng = PyNone
    /\ fn = "none"
    /\ \E h \in BoundedHeightmaps :
         \E x \in 0..(Shape0(h) - 1), y \in 0..(Shape1(h) - 1) :
            args = [heightmap |-> h, x |-> x, y |-> y]
    /\ ret = Pending

CallGetNeighbours ==
    /\ fn = "none"
    /\ fn' = "get_neighbours"
    /\ ret' = Returned(PyInt(get_neighbours(args.heightmap, args.x, args.y)))
    /\ UNCHANGED <<terrains, stream, printed, rng, args>>

CallTerrainGetNeighbours ==
    /\ fn = "none"
    /\ fn' = "Terrain.__get_neighbours"
    /\ ret' = Returned(PyInt(Terrain_get_neighbours(args.heightmap, args.x, args.y)))
    /\ UNCHANGED <<terrains, stream, printed, rng, args>>

NextNeighbours == CallGetNeighbours \/ CallTerrainGetNeighbours

SpecNeighbours == InitNeighbours /\ [][NextNeighbours]_vars

\* the positions of the Moore neighbourhood of (x, y) that lie inside the grid
MooreInside(heightmap, x, y) ==
    {p \in ((x - 1)..(x + 1)) \X ((y - 1)..(y + 1)) :
        /\ p # <<x, y>>
        /\ p[1] \in 0..(Shape0(heightmap) - 1)
        /\ p[2] \in 0..(Shape1(heightmap) - 1)}

OnRowEdge(heightmap, x) == x = 0 \/ x = Shape0(heightmap) - 1
OnColEdge(heightmap, y) == y = 0 \/ y = Shape1(heightmap) - 1

AllOnes3x3 == <<(<<1, 1, 1>>), (<<1, 1, 1>>), (<<1, 1, 1>>)>>

IsNeighbourCall == fn \in {"get_neighbours", "Terrain.__get_neighbours"}

\* C8: a neighbour count is the number of in-grid Moore neighbours holding 1
\* (no wraparound, no clamping, the cell itself excluded); it lies in 0..8, is
\* at most 5 on an edge and at most 3 in a corner, and on the 3x3 all-ones
\* grid it is 8 for the centre, 5 for an edge midpoint and 3 for a corner.
C8_EdgeClippedMooreCount ==
    IsNeighbourCall =>
        LET h == args.heightmap
            x == args.x
            y == args.y
            n == ret.value.val
        IN  /\ ret.kind = "return"
            /\ n = Cardinality({p \in MooreInside(h, x, y) : h[p[1] + 1][p[2] + 1] = 1})
            /\ n \in 0..8
            /\ (OnRowEdge(h, x) \/ OnColEdge(h, y)) => n <= 5
            /\ (OnRowEdge(h, x) /\ OnColEdge(h, y)) => n <= 3
            /\ h = AllOnes3x3 =>
                  n = IF x = 1 /\ y = 1 THEN 8
                      ELSE IF x = 1 \/ y = 1 THEN 5
                      ELSE 3

\* an edge midpoint of the 3x3 all-ones grid has been counted as 5
C8_Witness ==
    /\ fn = "Terrain.__get_neighbours"
    /\ args.heightmap = AllOnes3x3
    /\ args.x = 0
    /\ args.y = 1
    /\ ret = Returned(PyInt(5))

----------------------------------------------------------------------------
(* Specification of the rules: a cell state, a neighbour count and an      *)
(* optional generator are chosen, then one rule is called on them.         *)

\* the generators with two draws left
TwoDrawGenerators == {Generator(<<d1, d2>>) : d1 \in Draws, d2 \in Draws}

InitRules ==
    /\ terrains = NoTerrains
    /\ stream = NoStream
    /\ printed = NoOutput
    /\ rng \in {PyNone} \cup TwoDrawGenerators
    /\ fn = "none"
    /\ \E cell \in {0, 1}, neighbours \in 0..8 :
          args = [cell |-> cell, neighbours |-> neighbours, rng |-> rng]
    /\ ret = Pending

CallGameOfLife ==
    /\ fn = "none"
    /\ fn' = "game_of_life"
    /\ ret' = Returned(PyInt(game_of_life(args.cell, args.neighbours, rng)))
    /\ UNCHANGED <<terrains, stream, printed, rng, args>>

CallLiveOrDie ==
    /\ fn = "none"
    /\ fn' = "Terrain.__live_or_die"
    /\ ret' = Returned(PyInt(Terrain_live_or_die(args.cell, args.neighbours)))
    /\ UNCHANGED <<terrains, stream, printed, rng, args>>

CallBriansBrain ==
    /\ fn = "none"
    /\ fn' = "brians_brain"
    /\ ret' = Returned(PyInt(brians_brain(args.cell, args.neighbours, rng)))
    /\ UNCHANGED <<terrains, stream, printed, rng, args>>

CallAddIsland ==
    /\ fn = "none"
    /\ fn' = "add_island"
    /\ LET r == add_island(args.cell, args.neighbours, rng)
       IN  /\ ret' = IF r.kind = "raise" THEN Raised(r.value)
                     ELSE Returned(PyInt(r.value))
           /\ rng' = r.rng
    /\ UNCHANGED <<terrains, stream, printed, args>>

NextRules == CallGameOfLife \/ CallLiveOrDie \/ CallBriansBrain \/ CallAddIsland

SpecRules == InitRules /\ [][NextRules]_vars

\* C9: a live cell stays alive iff it has 2 or 3 live neighbours, a dead cell
\* becomes alive iff it has exactly 3; the result is 0 or 1, and game_of_life
\* and Terrain.__live_or_die agree on every input.
C9_GameOfLifeRule ==
    LET cell == args.cell
        n == args.neighbours
        conway == IF cell = 1
                  THEN (IF n \in {2, 3} THEN 1 ELSE 0)
                  ELSE (IF n = 3 THEN 1 ELSE 0)
    IN  /\ fn \in {"game_of_life", "Terrain.__live_or_die"} =>
              /\ ret = Returned(PyInt(conway))
              /\ ret.value.val \in {0, 1}
        /\ fn \in {"none", "game_of_life", "Terrain.__live_or_die"} =>
              game_of_life(cell, n, rng) = Terrain_live_or_die(cell, n)

\* a live cell with 4 live neighbours has died under game_of_life
C9_Witness ==
    /\ fn = "game_of_life"
    /\ args.cell = 1
    /\ args.neighbours = 4
    /\ ret = Returned(PyInt(0))

\* C10 as stated: add_island without a generator raises ValueError and
\* returns no state; with one it takes exactly one draw d and flips the cell
\* iff d < p, p = 1 - (n+8)/24 for a live cell and (n+8)/24 for a dead one,
\* which is 16/24 and 8/24 at n = 0 and 8/24 and 16/24 at n = 8.
C10_AddIslandRule ==
    fn = "add_island" =>
        LET cell == args.cell
            n == args.neighbours
        IN  IF args.rng = PyNone
            THEN ret = Raised("ValueError") /\ rng = PyNone
            ELSE LET d == args.rng.val[1]
                     pTimes24 == IF cell = 1 THEN 24 - (n + 8) ELSE n + 8
                     flips == 24 * d < pTimes24 * Resolution
                 IN  /\ ret = Returned(PyInt(IF flips THEN 1 - cell ELSE cell))
                     /\ rng = Generator(Tail(args.rng.val))
                     /\ (n = 0 /\ cell = 1) => (flips <=> 24 * d < 16 * Resolution)
                     /\ (n = 0 /\ cell = 0) => (flips <=> 24 * d < 8 * Resolution)
                     /\ (n = 8 /\ cell = 1) => (flips <=> 24 * d < 8 * Resolution)
                     /\ (n = 8 /\ cell = 0) => (flips <=> 24 * d < 16 * Resolution)

\* the neighbour counts n at which the double 1 - (n+8)/24 lies above the
\* double (16-n)/24, by one unit in the last place
DieChanceRoundsUp == {0, 3, 5, 8}

\* C10: add_island without a generator raises ValueError and returns no
\* state; with one it takes exactly one draw and flips the cell iff the draw
\* is below the double that 1 - (n+8)/24 (live cell) or (n+8)/24 (dead cell)
\* evaluates to.  A dead cell becomes alive iff the draw is below (n+8)/24;
\* a live cell dies iff the draw is below (16-n)/24 or, at n = 0, 3, 5 and 8,
\* equal to it: the die threshold is just above 16/24 at n = 0 and just above
\* 8/24 at n = 8, the live threshold is 8/24 at n = 0 and 16/24 at n = 8.
C10_AddIslandFloatRule ==
    fn = "add_island" =>
        LET cell == args.cell
            n == args.neighbours
        IN  IF args.rng = PyNone
            THEN ret = Raised("ValueError") /\ rng = PyNone
            ELSE LET d == args.rng.val[1]
                     dies == \/ 24 * d < (16 - n) * Resolution
                             \/ /\ 24 * d = (16 - n) * Resolution
                                /\ n \in DieChanceRoundsUp
                     lives == 24 * d < (n + 8) * Resolution
                     flips == IF cell = 1 THEN dies ELSE lives
                 IN  /\ ret = Returned(PyInt(IF flips THEN 1 - cell ELSE cell))
                     /\ rng = Generator(Tail(args.rng.val))

\* a live cell without live neighbours has died on a draw of 16/24, and only
\* that draw has been taken
C10_Witness ==
    /\ fn = "add_island"
    /\ args.cell = 1
    /\ args.neighbours = 0
    /\ args.rng # PyNone
    /\ 24 * args.rng.val[1] = 16 * Resolution
    /\ ret = Returned(PyInt(0))
    /\ rng = Generator(Tail(args.rng.val))

----------------------------------------------------------------------------
(* Specification of an automaton pass: a heightmap, a rule and a generator *)
(* are chosen, then cellular_automata or the Terrain's pass is called.     *)

PassShapes == {s \in (1..MaxPassCells) \X (1..MaxPassCells) : s[1] * s[2] <= MaxPassCells}

PassHeightmaps == UNION {Heightmaps(s[1], s[2]) : s \in PassShapes}

\* the draws given to a pass: about 1/3 and 1/2, under which add_island flips
\* a cell or keeps it according to the cell's neighbour count
PassDraws == {Resolution \div 3, Resolution \div 2}

InitAutomata ==
    /\ terrains = NoTerrains
    /\ stream = NoStream
    /\ printed = NoOutput
    /\ fn = "none"
    /\ \E h \in PassHeightmaps, algorithm \in Algorithms :
          /\ rng \in IF algorithm = "add_island"
                     THEN {PyNone} \cup
                          {Generator(ds) :
                              ds \in [1..(Shape0(h) * Shape1(h)) -> PassDraws]}
                     ELSE {PyNone}
          /\ args = [heightmap |-> h, algorithm |-> algorithm, rng |-> rng]
    /\ ret = Pending

CallCellularAutomata ==
    /\ fn = "none"
    /\ fn' = "cellular_automata"
    /\ ret' = cellular_automata(args.heightmap, args.algorithm, rng)
    /\ rng' = ret'.rng
    /\ UNCHANGED <<terrains, stream, printed, args>>

CallTerrainCellularAutomata ==
    /\ fn = "none"
    /\ args.algorithm = "game_of_life"
    /\ fn' = "Terrain.__cellular_automata"
    /\ ret' = Terrain_cellular_automata(args.heightmap)
    /\ UNCHANGED <<terrains, stream, printed, rng, args>>

NextAutomata == CallCellularAutomata \/ CallTerrainCellularAutomata

SpecAutomata == InitAutomata /\ [][NextAutomata]_vars

\* the cell (x, y) of a pass over the input h, the rule drawing, if it draws,
\* the draw of the cell's row-major position
PassCell(h, x, y, algorithm, generator) ==
    LET cell == h[x + 1][y + 1]
        n == get_neighbours(h, x, y)
        k == x * Shape1(h) + y
    IN  CASE algorithm = "game_of_life" -> game_of_life(cell, n, generator)
          [] algorithm = "brians_brain" -> brians_brain(cell, n, generator)
          [] algorithm = "add_island" ->
                add_island(cell, n, Generator(<<generator.val[k + 1]>>)).value

\* C1: a pass returns a new grid of the input's dimensions whose every cell
\* is the rule applied to the input's cell and to its neighbour count on the
\* input grid, never on cells written in the same pass, and leaves the input
\* grid unchanged (a stochastic rule given no generator raises instead).
C1_SnapshotDiscipline ==
    /\ fn = "cellular_automata" =>
          LET h == args.heightmap
          IN  IF args.algorithm = "add_island" /\ args.rng = PyNone
              THEN ret.kind = "raise" /\ ret.value = "ValueError" /\ ret.heightmap = h
              ELSE /\ ret.kind = "return"
                   /\ ret.heightmap = h
                   /\ Shape0(ret.value.val) = Shape0(h)
                   /\ Shape1(ret.value.val) = Shape1(h)
                   /\ \A x \in 0..(Shape0(h) - 1), y \in 0..(Shape1(h) - 1) :
                         ret.value.val[x + 1][y + 1] =
                             PassCell(h, x, y, args.algorithm, args.rng)
    /\ fn = "Terrain.__cellular_automata" =>
          LET h == args.heightmap
          IN  /\ ret.kind = "return"
              /\ ret.heightmap = h
              /\ Shape0(ret.value.val) = Shape0(h)
              /\ Shape1(ret.value.val) = Shape1(h)
              /\ \A x \in 0..(Shape0(h) - 1), y \in 0..(Shape1(h) - 1) :
                    ret.value.val[x + 1][y + 1] =
                        Terrain_live_or_die(h[x + 1][y + 1],
                                            Terrain_get_neighbours(h, x, y))

\* a game_of_life pass over the row 1 1 1 has returned 0 1 0: the middle cell
\* survived on its neighbours of the input, the first of which has died
C1_Witness ==
    /\ fn = "cellular_automata"
    /\ args.algorithm = "game_of_life"
    /\ args.heightmap = <<(<<1, 1, 1>>)>>
    /\ ret.kind = "return"
    /\ ret.value = NdArray(<<(<<0, 1, 0>>)>>)

----------------------------------------------------------------------------
(* Specification of zoom: a heightmap and a zoom factor are chosen, then   *)
(* Terrain.__zoom is called on them.                                       *)

ZoomFactors == {PyInt(f) : f \in (-1)..MaxFactor} \cup {PyFloat(2)}

InitZoom ==
    /\ terrains = NoTerrains
    /\ stream = NoStream
    /\ printed = NoOutput
    /\ rng = PyNone
    /\ fn = "none"
    /\ \E h \in BoundedHeightmaps, f \in ZoomFactors :
          args = [heightmap |-> h, zoom_factor |-> f]
    /\ ret = Pending

CallZoom ==
    /\ fn = "none"
    /\ fn' = "Terrain.__zoom"
    /\ ret' = Terrain_zoom(args.heightmap, args.zoom_factor)
    /\ UNCHANGED <<terrains, stream, printed, rng, args>>

NextZoom == CallZoom

SpecZoom == InitZoom /\ [][NextZoom]_vars

\* C7: zoom by an integer factor f >= 1 returns an (N*f) x (M*f) grid with
\* result[x, y] = source[x div f, y div f], so that factor 1 is the identity;
\* a factor of 0 or below raises ValueError and returns no grid.
C7_ZoomIsBlockReplication ==
    (fn = "Terrain.__zoom" /\ isinstance(args.zoom_factor, "int")) =>
        LET h == args.heightmap
            f == args.zoom_factor.val
        IN  IF f >= 1
            THEN /\ ret.kind = "return"
                 /\ Shape0(ret.value.val) = Shape0(h) * f
                 /\ Shape1(ret.value.val) = Shape1(h) * f
                 /\ \A x \in 0..(Shape0(h) * f - 1), y \in 0..(Shape1(h) * f - 1) :
                       ret.value.val[x + 1][y + 1] = h[(x \div f) + 1][(y \div f) + 1]
                 /\ f = 1 => ret.value.val = h
            ELSE ret = Raised("ValueError")

\* a grid holding both cell states has been zoomed by a factor above 1
C7_Witness ==
    /\ fn = "Terrain.__zoom"
    /\ isinstance(args.zoom_factor, "int")
    /\ args.zoom_factor.val = 2
    /\ args.heightmap = <<(<<0, 1>>), (<<1, 0>>)>>
    /\ ret = Returned(NdArray(<<(<<0, 0, 1, 1>>), (<<0, 0, 1, 1>>),
                                (<<1, 1, 0, 0>>), (<<1, 1, 0, 0>>)>>))

----------------------------------------------------------------------------
(* world_gen.py: Terrain.__init__ *)

\* the seeds of the model; numpy's bit stream of a seed is a fixed sequence
\* of draws, revealed in stream[seed] as the draws are taken
Seeds == {0, 1}

\* np.random.default_rng() called without the seed: seeded from the OS
default_rng_Unseeded(seed, os_entropy) == Returned(StreamGenerator(os_entropy, 0))

\* np.random.default_rng(seed = seed): numpy seeds from the OS if the seed is
\* None and rejects a negative int
default_rng(seed, os_entropy) ==
    IF seed = PyNone
    THEN Returned(StreamGenerator(os_entropy, 0))
    ELSE IF seed.val < 0
    THEN Raised("ValueError")
    ELSE Returned(StreamGenerator(seed.val, 0))

Terrain_init(seed, start_size, os_entropy) ==
    IF ~isinstance(seed, "int")
    THEN Raised("TypeError")
    ELSE IF ~isinstance(start_size, "tuple")
    THEN Raised("TypeError")
    ELSE IF Len(start_size.val) < 1                   \* start_size[0]
    THEN Raised("IndexError")
    ELSE IF ~isinstance(start_size.val[1], "int")
    THEN Raised("TypeError")
    ELSE IF Len(start_size.val) < 2                   \* start_size[1]
    THEN Raised("IndexError")
    ELSE IF ~isinstance(start_size.val[2], "int")
    THEN Raised("TypeError")
    ELSE IF Len(start_size.val) # 2
    THEN Raised("ValueError")
    ELSE LET generator == default_rng(seed, os_entropy)          \* line 76
         IN  IF generator.kind = "raise"
             THEN generator
             ELSE Returned([type |-> "Terrain",
                            val |-> [seed |-> seed,
                                     start_size |-> start_size,
                                     is_generated |-> FALSE,
                                     heightmap |-> PyNone,
                                     rng |-> generator.value]])

----------------------------------------------------------------------------
(* world_gen.py: Terrain.generate *)

\* the float literal 0.1 of line 249
FillChance == Frac(1, 10)

\* np.zeros((rows, cols), dtype = int)
Zeros(rows, cols) == Array([x \in 1..rows |-> [y \in 1..cols |-> 0]], rows, cols)

\* rng.random((rows, cols)): the array is filled in row-major order
RandomArray(generator, rows, cols) ==
    [value |-> Array([x \in 1..rows |-> [y \in 1..cols |->
                          generator.val[(x - 1) * cols + y]]], rows, cols),
     rng |-> Generator(SubSeq(generator.val, rows * cols + 1, Len(generator.val)))]

\* generate run on the Terrain self whose generator is about to produce the
\* draws upcoming: what the call prints, what it returns, the attributes it
\* leaves and the number of draws it has taken
Terrain_generate(self, upcoming) ==
    LET rows == self.start_size.val[1].val
        cols == self.start_size.val[2].val
        zeros == Zeros(rows, cols)
        drawn == RandomArray(Generator(upcoming), rows, cols)
        indices_to_flip ==
            Array([x \in 1..rows |-> [y \in 1..cols |->
                      DrawBelow(drawn.value[x][y], FillChance)]], rows, cols)
        seeded ==
            Array([x \in 1..rows |-> [y \in 1..cols |->
                      IF indices_to_flip[x][y] THEN 1 ELSE zeros[x][y]]], rows, cols)
        zoomed == Terrain_zoom(seeded, PyInt(2))
        automated == Terrain_cellular_automata(zoomed.value.val)
    IN  [kind |-> "return",
         value |-> PyNone,
         printed |-> << [stage |-> "zeros", array |-> zeros],
                        [stage |-> "seed", array |-> seeded],
                        [stage |-> "zoom", array |-> zoomed.value.val],
                        [stage |-> "game_of_life", array |-> automated.value.val] >>,
         self |-> self,
         taken |-> rows * cols]

----------------------------------------------------------------------------
(* Specification of the pipeline: Terrain objects are constructed and      *)
(* generate is called on them.                                             *)

\* the two Terrain objects that are compared with each other
TerrainIds == {1, 2}

\* a seed numpy rejects
NegativeSeed == PyInt(-1)

PipelineSeedArgs == {PyInt(s) : s \in Seeds} \cup {NegativeSeed}

PipelineSizeArgs ==
    {PyTuple(<<PyInt(a), PyInt(b)>>) : a \in 1..MaxStart, b \in 1..MaxStart}
        \cup {PyTuple(<<PyInt(MaxStart)>>)}

\* the draws of a bit stream: one below the fill threshold 0.1, one above it
PipelineDraws == {Resolution \div 12, Resolution \div 2}

Init ==
    /\ terrains = NoTerrains
    /\ stream = [s \in Seeds |-> <<>>]
    /\ printed = [t \in TerrainIds |-> <<>>]
    /\ rng = PyNone
    /\ fn = "none"
    /\ args = <<>>
    /\ ret = Pending

\* Terrain(seed, start_size), the object, if constructed, being kept as t
Construct(t, seedArgs, sizeArgs) ==
    /\ t \notin DOMAIN terrains
    /\ \A u \in 1..(t - 1) : u \in DOMAIN terrains
    /\ \E seed \in seedArgs, start_size \in sizeArgs, os_entropy \in Seeds :
          /\ fn' = "Terrain.__init__"
          /\ args' = [self |-> t, seed |-> seed, start_size |-> start_size]
          /\ ret' = Terrain_init(seed, start_size, os_entropy)
          /\ terrains' = IF ret'.kind = "return"
                         THEN [u \in DOMAIN terrains \cup {t} |->
                                  IF u = t THEN ret'.value.val ELSE terrains[u]]
                         ELSE terrains
    /\ UNCHANGED <<stream, printed, rng>>

\* terrains[t].generate(); the draws the call takes are those of the stream
\* of the generator, the ones not taken before being revealed now
Generate(t) ==
    /\ t \in DOMAIN terrains
    /\ Len(printed[t]) < MaxRuns
    /\ LET self == terrains[t]
           seed == self.rng.val.seed
           position == self.rng.val.position
           need == self.start_size.val[1].val * self.start_size.val[2].val
       IN  /\ position + need <= MaxDraws
           /\ \E upcoming \in [1..need -> PipelineDraws] :
                 /\ \A i \in 1..need :
                       position + i <= Len(stream[seed]) =>
                           upcoming[i] = stream[seed][position + i]
                 /\ stream' = [stream EXCEPT ![seed] =
                                  IF position + need <= Len(@)
                                  THEN @
                                  ELSE SubSeq(@, 1, position) \o upcoming]
                 /\ fn' = "Terrain.generate"
                 /\ args' = [self |-> t]
                 /\ ret' = Terrain_generate(self, upcoming)
                 /\ printed' = [printed EXCEPT ![t] = Append(@, ret'.printed)]
                 /\ terrains' = [terrains EXCEPT ![t] =
                        [ret'.self EXCEPT !.rng =
                            StreamGenerator(seed, position + ret'.taken)]]
    /\ UNCHANGED rng

Next ==
    \E t \in TerrainIds :
        \/ Construct(t, PipelineSeedArgs, PipelineSizeArgs)
        \/ Generate(t)

Spec == Init /\ [][Next]_vars

\* the first generate call of t passed through these stages
FirstRun(t) == printed[t][1]

FinalArray(run) == run[Len(run)].array

\* C2: two Terrains constructed with the same seed and the same start size
\* pass, each in its first generate call, through identical grids at every
\* stage and end with identical final grids.
C2_Determinism ==
    \A t1 \in DOMAIN terrains, t2 \in DOMAIN terrains :
        ( /\ terrains[t1].seed = terrains[t2].seed
          /\ terrains[t1].start_size = terrains[t2].start_size
          /\ Len(printed[t1]) >= 1
          /\ Len(printed[t2]) >= 1 )
        => /\ FirstRun(t1) = FirstRun(t2)
           /\ FinalArray(FirstRun(t1)) = FinalArray(FirstRun(t2))

\* two Terrains of the same seed and start size have both generated, some
\* cell of the seed grid having been flipped to 1
C2_Witness ==
    /\ DOMAIN terrains = {1, 2}
    /\ terrains[1].seed = terrains[2].seed
    /\ terrains[1].start_size = terrains[2].start_size
    /\ Len(printed[1]) >= 1
    /\ Len(printed[2]) >= 1
    /\ \E x \in 1..Len(FirstRun(1)[2].array) :
          \E y \in 1..Len(FirstRun(1)[2].array[x]) :
             FirstRun(1)[2].array[x][y] = 1

ReferenceStages ==
    << "seed", "zoom", "add_island", "zoom", "add_island", "add_island",
       "add_island", "remove_ocean", "zoom", "zoom", "add_island" >>

\* the stages of a run that follow the allocation of the start grid
StagesOf(run) == [i \in 1..(Len(run) - 1) |-> run[i + 1].stage]

\* C3: every generate call runs the reference stage sequence Seed, Zoom,
\* AddIsland, Zoom, AddIsland x3, RemoveOcean, Zoom, Zoom, AddIsland, the
\* grid having twice the start dimensions after the first zoom and 16 times
\* the start dimensions at the end.
C3_ReferenceStageSequence ==
    \A t \in DOMAIN terrains :
        \A r \in 1..Len(printed[t]) :
            LET run == printed[t][r]
                rows == terrains[t].start_size.val[1].val
                cols == terrains[t].start_size.val[2].val
            IN  /\ StagesOf(run) = ReferenceStages
                /\ Shape0(run[3].array) = 2 * rows
                /\ Shape1(run[3].array) = 2 * cols
                /\ Shape0(FinalArray(run)) = 16 * rows
                /\ Shape1(FinalArray(run)) = 16 * cols

\* C4: a second generate call on a Terrain is rejected or produces the grid
\* the first call produced.
C4_RegenerateIsDeterministic ==
    (fn = "Terrain.generate" /\ Len(printed[args.self]) >= 2) =>
        \/ ret.kind = "raise"
        \/ FinalArray(printed[args.self][Len(printed[args.self])])
              = FinalArray(FirstRun(args.self))

\* C5: when generate returns, it returns the final heightmap, the Terrain's
\* heightmap attribute is that grid and is_generated is true.
C5_FinalizedHoldsOutput ==
    (fn = "Terrain.generate" /\ ret.kind = "return") =>
        LET t == args.self
            final == NdArray(FinalArray(printed[t][Len(printed[t])]))
        IN  /\ ret.value = final
            /\ terrains[t].heightmap = final
            /\ terrains[t].is_generated = TRUE

----------------------------------------------------------------------------
(* Specification of the constructor: Terrain(seed, start_size) is called   *)
(* on seeds and start sizes of every kind.                                 *)

SeedArgs == PipelineSeedArgs \cup {PyFloat(0), PyNone}

SizeItems == {PyInt(a) : a \in 1..MaxStart} \cup {PyFloat(MaxStart)}

SizeArgs ==
    {PyTuple(items) : items \in UNION {[1..n -> SizeItems] : n \in 0..3}}
        \cup {PyList(<<PyInt(MaxStart), PyInt(MaxStart)>>), PyInt(MaxStart)}

NextInit == Construct(1, SeedArgs, SizeArgs)

SpecInit == Init /\ [][NextInit]_vars

IsIntPair(start_size) ==
    /\ isinstance(start_size, "tuple")
    /\ Len(start_size.val) = 2
    /\ \A i \in 1..2 : isinstance(start_size.val[i], "int")

\* C6: Terrain(seed, start_size) raises TypeError or ValueError and produces
\* no Terrain whenever the seed is not an int or the start size is not a
\* length-2 tuple of ints, and constructs the Terrain otherwise.
C6_ConstructorValidates ==
    fn = "Terrain.__init__" =>
        IF isinstance(args.seed, "int") /\ IsIntPair(args.start_size)
        THEN /\ ret.kind = "return"
             /\ args.self \in DOMAIN terrains
        ELSE /\ ret.kind = "raise"
             /\ ret.value \in {"TypeError", "ValueError"}
             /\ args.self \notin DOMAIN terrains

====
